---- MODULE Spec2Model ----
(***************************************************************************)
(* Model of the TPIK controller node of angler                             *)
(* (src/angler_planning/tpik/controller.py) and of the Jacobian helpers it *)
(* uses (src/angler_planning/tpik/jacobian.py).                            *)
(*                                                                         *)
(* Numbers.  The controller works on real matrices; the model works on     *)
(* integer matrices of one class on which the Moore-Penrose pseudoinverse  *)
(* is exact in integer arithmetic: every row of a Jacobian holds at most   *)
(* one non-zero entry, and that entry is 1 or -1 (a joint-limit row, the   *)
(* rows of the manipulator-configuration task, the vehicle rows of the     *)
(* end-effector task under identity transforms), and no two rows of one    *)
(* task's Jacobian share a column.  A matrix is a sequence of rows, a row  *)
(* and a column vector are sequences of integers.                          *)
(***************************************************************************)
EXTENDS Integers, Sequences, FiniteSets, TLC

-----------------------------------------------------------------------------
(* Bounds of the model *)

\* longest task list the solver specification builds
MaxTasks == 3
\* robot state messages delivered to the node
MaxSnapshots == 2
\* firings of the control timer
MaxTicks == 2
\* robot description messages delivered to the node
MaxDescriptions == 1
\* joint angles of a state message range over 0..QMax
QMax == 3
\* vehicle positions of a state message range over 0..PMax
PMax == 1
\* joints of the manipulator's serial chain (read from the robot description)
NJoints == 1
\* most chain joints of a direct call of a helper function
MaxChainJoints == 2
\* largest entry of a velocity handed to get_robot_trajectory_from_velocities
VMax == 1
\* waypoints of a pre-planned mission
MaxWaypoints == 3
\* markers in a camera frame
MaxMarkers == 2

\* the vehicle's degrees of freedom: the 6 of np.zeros((6 + n_manipulator_joints, 1))
VehicleDof == 6
\* width of every Jacobian and length of the system velocity vector
SystemDof == VehicleDof + NJoints

\* Python's None (desired_value_dot of a task that is not time-varying)
None == <<>>

-----------------------------------------------------------------------------
(* Dense linear algebra (numpy) on the integer class *)

\* the sequence a function on 1..n is, written out (TLC keeps [i \in S |-> e]
\* unevaluated until it is applied; every vector and matrix below is written out)
AsSeq(f) == f \o <<>>

\* the positions of the non-zero entries of a row or column vector
Support(x) == {k \in 1..Len(x) : x[k] # 0}

RECURSIVE DotOver(_, _, _)
\* the sum of x[k] y[k] over the positions k of S
DotOver(S, x, y) ==
    IF S = {} THEN 0
    ELSE LET k == CHOOSE l \in S : TRUE IN x[k] * y[k] + DotOver(S \ {k}, x, y)

\* x @ y for a row x and a column y of the same length (the zero entries of
\* x add nothing to the sum)
Dot(x, y) == DotOver(Support(x), x, y)

\* A @ v for a matrix A and a column vector v
MatVec(A, v) == AsSeq([i \in 1..Len(A) |-> Dot(A[i], v)])

RECURSIVE RowColOver(_, _, _, _)
\* the sum of x[k] B[k][j] over the positions k of S
RowColOver(S, x, B, j) ==
    IF S = {} THEN 0
    ELSE LET k == CHOOSE l \in S : TRUE IN x[k] * B[k][j] + RowColOver(S \ {k}, x, B, j)

\* A @ B for A of shape (m, p) and B of shape (p, n)
MatMul(A, B, n) ==
    AsSeq([i \in 1..Len(A) |->
        LET S == Support(A[i])
        IN AsSeq([j \in 1..n |-> RowColOver(S, A[i], B, j)])])

VecAdd(x, y) == AsSeq([i \in 1..Len(x) |-> x[i] + y[i]])
VecSub(x, y) == AsSeq([i \in 1..Len(x) |-> x[i] - y[i]])
VecScale(c, x) == AsSeq([i \in 1..Len(x) |-> c * x[i]])
MatSub(A, B) == AsSeq([i \in 1..Len(A) |-> VecSub(A[i], B[i])])

\* np.zeros((n, 1)) and np.zeros((m, n))
ZeroVec(n) == AsSeq([i \in 1..n |-> 0])
ZeroMat(m, n) == AsSeq([i \in 1..m |-> ZeroVec(n)])

\* np.eye(n)
Eye(n) == AsSeq([i \in 1..n |-> AsSeq([j \in 1..n |-> IF i = j THEN 1 ELSE 0])])

\* a unit row of width n: sign at column c (1-based), 0 elsewhere
UnitRow(n, c, sign) == AsSeq([j \in 1..n |-> IF j = c THEN sign ELSE 0])

\* the rows of A with a non-zero entry in column c
ColSupport(A, c) == {i \in 1..Len(A) : A[i][c] # 0}

\* their number: the c-th diagonal entry of A^T A when A is in the class
ColCount(A, c) == Cardinality(ColSupport(A, c))

RECURSIVE ColColOver(_, _, _, _, _)
\* the sum of A[i][c] B[i][j] over the rows i of R
ColColOver(R, A, c, B, j) ==
    IF R = {} THEN 0
    ELSE LET i == CHOOSE l \in R : TRUE
         IN A[i][c] * B[i][j] + ColColOver(R \ {i}, A, c, B, j)

RECURSIVE ColVecOver(_, _, _, _)
\* the sum of A[i][c] v[i] over the rows i of R
ColVecOver(R, A, c, v) ==
    IF R = {} THEN 0
    ELSE LET i == CHOOSE l \in R : TRUE IN A[i][c] * v[i] + ColVecOver(R \ {i}, A, c, v)

\* np.linalg.pinv(A) @ B for A of shape (m, n) in the class and B of shape
\* (m, p).  On the class A^T A is diagonal with entries ColCount(A, c), so
\* pinv(A) = (A^T A)^+ A^T has row c equal to column c of A divided by
\* ColCount(A, c) (a zero row where the count is 0).
PinvMatMul(A, n, B, p) ==
    AsSeq([c \in 1..n |->
        LET R == ColSupport(A, c)
        IN IF R = {} THEN ZeroVec(p)
           ELSE AsSeq([j \in 1..p |-> ColColOver(R, A, c, B, j) \div Cardinality(R)])])

\* np.linalg.pinv(A) @ v for a column vector v of length m
PinvMatVec(A, n, v) ==
    AsSeq([c \in 1..n |->
        LET R == ColSupport(A, c)
        IN IF R = {} THEN 0 ELSE ColVecOver(R, A, c, v) \div Cardinality(R)])

\* squared Euclidean norm: np.linalg.norm orders vectors as its square does
NormSq(v) == Dot(v, v)

-----------------------------------------------------------------------------
(* controller.py: the nullspace helpers *)

\* an always-identity projector: the nullspace update forgotten
calculate_nullspace_identity(augmented_jacobian, n) == Eye(n)

\* np.eye(shape[1]) - np.linalg.pinv(augmented_jacobian) @ augmented_jacobian
\* the projector onto the row space: the identity was left out
calculate_nullspace_range(augmented_jacobian, n) ==
    PinvMatMul(augmented_jacobian, n, augmented_jacobian, n)

calculate_nullspace(augmented_jacobian, n) ==
    MatSub(Eye(n), PinvMatMul(augmented_jacobian, n, augmented_jacobian, n))

RECURSIVE construct_augmented_jacobian(_)
\* np.vstack(tuple(jacobians))
construct_augmented_jacobian(jacobians) ==
    IF jacobians = <<>> THEN <<>>
    ELSE Head(jacobians) \o construct_augmented_jacobian(Tail(jacobians))

-----------------------------------------------------------------------------
(* controller.py: TPIK.calculate_system_velocity *)

\* lines 223-237: updated_system_velocities of the call that handles task t
updated_velocities(t, system_velocities, nullspace) ==
    LET J == t.jacobian
        e == t.error
        n == Len(nullspace)
        t_dot == IF t.desired_value_dot # None THEN t.desired_value_dot
                 ELSE ZeroVec(Len(e))
    IN PinvMatVec(MatMul(J, nullspace, n), n,
                  VecSub(VecAdd(t_dot, VecScale(t.gain, e)), MatVec(J, system_velocities)))

\* lines 214-249
RECURSIVE calculate_system_velocity_rec(_, _, _, _)
calculate_system_velocity_rec(hierarchy, system_velocities, prev_jacobians, nullspace) ==
    IF hierarchy = <<>>
    THEN system_velocities
    ELSE LET t == Head(hierarchy)
             updated_system_velocities == updated_velocities(t, system_velocities, nullspace)
             jacobians == Append(prev_jacobians, t.jacobian)
             updated_nullspace ==
                 calculate_nullspace(construct_augmented_jacobian(jacobians), Len(nullspace))
         IN VecAdd(updated_system_velocities,
                   calculate_system_velocity_rec(Tail(hierarchy), updated_system_velocities,
                                                 jacobians, updated_nullspace))

\* lines 235-249: the updated_system_velocities of the successive calls, the
\* terms the returned sum is made of (the last one is returned by the final
\* call as well)
RECURSIVE rec_updates(_, _, _, _)
rec_updates(hierarchy, system_velocities, prev_jacobians, nullspace) ==
    IF hierarchy = <<>>
    THEN <<>>
    ELSE LET t == Head(hierarchy)
             updated_system_velocities == updated_velocities(t, system_velocities, nullspace)
             jacobians == Append(prev_jacobians, t.jacobian)
             updated_nullspace ==
                 calculate_nullspace(construct_augmented_jacobian(jacobians), Len(nullspace))
         IN <<updated_system_velocities>> \o
            rec_updates(Tail(hierarchy), updated_system_velocities, jacobians, updated_nullspace)

VARIABLE
    solverJacobians         \* history: the list jacobians of the latest solver call, as the call left it

\* the list of the call before is taken up again
initial_jacobians_kept == solverJacobians

\* line 208: jacobians = [], a new list in every call
initial_jacobians == <<>>

\* TPIK.calculate_system_velocity(hierarchy), for a non-empty hierarchy
\* (hierarchy[0] raises IndexError on an empty one)
calculate_system_velocity(hierarchy, n_manipulator_joints) ==
    calculate_system_velocity_rec(hierarchy,
                                  ZeroVec(VehicleDof + n_manipulator_joints),
                                  initial_jacobians,
                                  Eye(Len(hierarchy[1].jacobian[1])))

-----------------------------------------------------------------------------
(* The task model (tpik.tasks, tpik.constraint) and the task hierarchy       *)
(* (tpik.hierarchy).  A task is a record; set tasks are the JointLimit ones. *)

IsSetTask(t) == t.kind = "JointLimit"

\* a task as TaskHierarchy.load_tasks_from_path builds it: nothing computed yet
NewTask(kind, joint, lower, upper, desired) ==
    [kind |-> kind, joint |-> joint, lower |-> lower, upper |-> upper,
     gain |-> 1, desired |-> desired, desired_value_dot |-> None,
     n_manipulator_joints |-> 0, has_chain |-> FALSE,
     jacobian |-> ZeroMat(CASE kind = "JointLimit" -> 1
                            [] kind = "EndEffectorPose" -> VehicleDof
                            [] OTHER -> NJoints, SystemDof),
     error |-> ZeroVec(CASE kind = "JointLimit" -> 1
                         [] kind = "EndEffectorPose" -> VehicleDof
                         [] OTHER -> NJoints),
     current_value |-> 0, active |-> FALSE,
     stamp |-> 0, stale |-> FALSE]

JointLimitTask == NewTask("JointLimit", VehicleDof, 1, 2, 0)
EndEffectorPoseTask == NewTask("EndEffectorPose", 0, 0, 0, 1)
ManipulatorConfigurationTask == NewTask("ManipulatorConfiguration", 0, 0, 0, 4)

\* the hierarchy configurations the model is run on, in declared priority order
HierarchyConfigs ==
    { <<JointLimitTask, EndEffectorPoseTask, ManipulatorConfigurationTask>>,
      <<ManipulatorConfigurationTask, JointLimitTask>>,
      <<EndEffectorPoseTask, ManipulatorConfigurationTask>> }

\* SetTask.set_task_active(current_value)
set_task_active(t, current_value) ==
    [t EXCEPT !.active = (current_value < t.lower \/ current_value > t.upper)]

\* JointLimit.update(joint_angle): the value, the deviation from the violated
\* bound and the unit row of the joint's column
joint_limit_update(t, joint_angle, seq) ==
    IF t.n_manipulator_joints = 0 THEN t
    ELSE [t EXCEPT !.current_value = joint_angle,
                   !.error = << IF joint_angle < t.lower THEN t.lower - joint_angle
                                ELSE IF joint_angle > t.upper THEN t.upper - joint_angle
                                ELSE 0 >>,
                   !.jacobian = << UnitRow(VehicleDof + t.n_manipulator_joints, t.joint + 1, 1) >>,
                   !.stamp = seq, !.stale = FALSE]

\* the task is updated and its activation is left as it was
joint_limit_step_without_activation(task, joint_angle, seq) ==
    joint_limit_update(task, joint_angle, seq)

\* controller.py lines 374-375: task.update(joint_angle), then
\* task.set_task_active(joint_angle)
joint_limit_step(task, joint_angle, seq) ==
    set_task_active(joint_limit_update(task, joint_angle, seq), joint_angle)

\* ManipulatorConfiguration.update(joint_angles): rows [0 | I] and the
\* deviation of every joint from the desired configuration
manipulator_configuration_update(t, joint_angles, seq) ==
    IF t.n_manipulator_joints = 0 THEN t
    ELSE [t EXCEPT !.error = [j \in 1..Len(joint_angles) |-> t.desired - joint_angles[j]],
                   !.jacobian = [j \in 1..t.n_manipulator_joints |->
                                   UnitRow(VehicleDof + t.n_manipulator_joints, VehicleDof + j, 1)],
                   !.stamp = seq, !.stale = FALSE]

\* EndEffectorPose.update(joint_angles, vehicle_pose, tf, tf): the vehicle
\* block of the UVMS Jacobian under identity rotations and zero lever arms,
\* and the deviation of the pose along x
end_effector_pose_update(t, joint_angles, vehicle_pose, seq) ==
    IF t.n_manipulator_joints = 0 \/ ~t.has_chain THEN t
    ELSE [t EXCEPT !.error = [j \in 1..VehicleDof |-> IF j = 1 THEN t.desired - vehicle_pose ELSE 0],
                   !.jacobian = [j \in 1..VehicleDof |->
                                   UnitRow(VehicleDof + t.n_manipulator_joints, j, 1)],
                   !.stamp = seq, !.stale = FALSE]

\* TaskHierarchy.active_task_hierarchy: positions (in tasks) of the equality
\* tasks and of the active set tasks, in declared order
RECURSIVE active_from(_, _)
active_from(ts, i) ==
    IF i > Len(ts) THEN <<>>
    ELSE (IF ~IsSetTask(ts[i]) \/ ts[i].active THEN <<i>> ELSE <<>>) \o active_from(ts, i + 1)

active_task_hierarchy(ts) == active_from(ts, 1)

\* the task lists that keep every equality task of idxs and a subset of its
\* set tasks, the list without any set task first and the full list last
RECURSIVE mode_lists(_, _)
mode_lists(ts, idxs) ==
    IF idxs = <<>> THEN << <<>> >>
    ELSE LET rest == mode_lists(ts, Tail(idxs))
             with == [k \in 1..Len(rest) |-> <<Head(idxs)>> \o rest[k]]
         IN IF IsSetTask(ts[Head(idxs)]) THEN rest \o with ELSE with

\* TaskHierarchy.hierarchies: the modes
hierarchies_of(ts) == mode_lists(ts, active_task_hierarchy(ts))

\* the tasks at the positions idxs
TasksAt(ts, idxs) == [k \in 1..Len(idxs) |-> ts[idxs[k]]]

-----------------------------------------------------------------------------
(* controller.py: the TPIK node *)

VARIABLES
    tasks,                  \* self.hierarchy.tasks
    state,                  \* self.state, with the sequence number of the message
    description_received,   \* self._description_received
    init_state_received,    \* self._init_state_received
    n_manipulator_joints,   \* self.n_manipulator_joints (0: not assigned yet)
    subRunning,             \* the callback of the node's default group that is executing
    taskIdx,                \* update_context: position of the for loop in hierarchy.tasks
    tickPc,                 \* update: "idle", "solve" or "finish"
    hierarchies,            \* update: the local hierarchies
    has_set_tasks,          \* update: the local has_set_tasks
    modeIdx,                \* update: position of the for loop in hierarchies
    solutions,              \* update: the local solutions
    system_velocities,      \* update: the local system_velocities of the branch without set tasks
    published,              \* what robot_trajectory_pub has published, oldest first
    nSnapshots, nTicks, nDescriptions,  \* messages delivered and timer firings so far
    completed,              \* history: callbacks that have run to their end, by name
    updateStart,            \* history: tasks as they were when update_context was entered
    lookupFailed,           \* history: tasks whose transform lookup failed in this update_context
    updateCalls,            \* history: tasks whose update this update_context has invoked
    evaluated,              \* history: the modes this tick has solved, with their checks
    lastTick,               \* history: how the latest finished tick ended
    tickRace,               \* history: whether this tick ran beside another callback
    executing               \* the number of worker threads that execute each callback

nodeVars == <<tasks, state, description_received, init_state_received,
              n_manipulator_joints, subRunning, taskIdx, tickPc, hierarchies,
              has_set_tasks, modeIdx, solutions, system_velocities, published,
              nSnapshots, nTicks, nDescriptions, completed, updateStart,
              lookupFailed, updateCalls, solverJacobians, evaluated, lastTick,
              tickRace, executing>>

VARIABLES
    solveHierarchy,         \* the task list handed to calculate_system_velocity
    solveResult,            \* what calculate_system_velocity returned
    solvePc                 \* "off", "build" (the list is being drawn) or "done"

solveVars == <<solveHierarchy, solveResult, solvePc>>

VARIABLES
    callName,               \* the function of the latest direct call ("none": no call yet)
    callArgs,               \* its arguments
    callResult              \* what it returned or raised

callVars == <<callName, callArgs, callResult>>

\* how a tick ended: "uninitialized" (stopped at the gate), "no_solution"
\* (logged and returned) or "published"; whether a solved task was stale,
\* whether arbitration was engaged, how many candidates passed the check, the
\* velocity handed to the publisher, whether no other callback ran beside the
\* tick, and how the tick before it ended
NoTick == [outcome |-> "none", used_stale |-> FALSE, engaged |-> FALSE, accepted |-> 0,
           velocity |-> <<>>, clean |-> TRUE, prev |-> "none"]

\* no callback has run beside the tick; the messages delivered when it began
NoRace == [partial |-> FALSE, clean |-> TRUE, seen |-> <<0, 0>>]

\* the callbacks TPIK.__init__ registers: three subscriptions and the timer
Callbacks == {"read_robot_description_cb", "robot_state_cb", "update_trajectory_cb", "update"}

NodeInit ==
    /\ tasks \in HierarchyConfigs
    /\ state = [seq |-> 0, position |-> <<>>, vehicle_pose |-> 0]
    /\ description_received = FALSE
    /\ init_state_received = FALSE
    /\ n_manipulator_joints = 0
    /\ subRunning = "none"
    /\ taskIdx = 0
    /\ tickPc = "idle"
    /\ hierarchies = <<>>
    /\ has_set_tasks = FALSE
    /\ modeIdx = 0
    /\ solutions = <<>>
    /\ system_velocities = <<>>
    /\ published = <<>>
    /\ nSnapshots = 0 /\ nTicks = 0 /\ nDescriptions = 0
    /\ completed = [cb \in {"read_robot_description_cb", "robot_state_cb"} |-> 0]
    /\ updateStart = <<>>
    /\ lookupFailed = {}
    /\ updateCalls = {}
    /\ solverJacobians = <<>>
    /\ evaluated = <<>>
    /\ lastTick = NoTick
    /\ tickRace = NoRace
    /\ executing = [cb \in Callbacks |-> 0]

\* the state messages the node can receive: the fixed leading joint, then
\* one angle per chain joint; the vehicle's position
StateMessages ==
    { [position |-> <<0>> \o q, vehicle_pose |-> p] :
        q \in [1..NJoints -> 0..QMax], p \in 0..PMax }

\* the initialization gate dropped to the description alone
initialized_description_only == description_received

\* TPIK.initialized
initialized == description_received /\ init_state_received

-----------------------------------------------------------------------------
(* The executor: MultiThreadedExecutor runs a callback as soon as a worker  *)
(* is free and no other callback of its mutually exclusive group executes.  *)

\* every callback in a group of its own
callback_group_per_callback(cb) == cb

\* TPIK.__init__: the timer is given timer_cb_group, the three subscriptions
\* are created without a group and share the node's default group
callback_group(cb) == IF cb = "update" THEN "timer_cb_group" ELSE "default_callback_group"

\* whether a callback of the group is executing
group_busy(g) ==
    \E cb \in Callbacks : callback_group(cb) = g /\ executing[cb] > 0

\* the executor may take the callback
can_take(cb) == ~group_busy(callback_group(cb))

\* a worker thread enters the callback, a worker thread returns from it
entered(cb) == [executing EXCEPT ![cb] = @ + 1]
returned(cb) == [executing EXCEPT ![cb] = @ - 1]

-----------------------------------------------------------------------------
(* read_robot_description_cb *)

\* the flag is set first, the joint count and the attributes after it
description_steps_flag_first == <<"flag", "attributes">>

\* the order of read_robot_description_cb: lines 163-189 (the chain, the joint
\* count, the attributes of the tasks), then line 191 (the flag)
description_steps == <<"attributes", "flag">>

\* one of the two steps of read_robot_description_cb
description_step(step) ==
    IF step = "attributes"
    THEN /\ n_manipulator_joints' = NJoints
         /\ tasks' = [i \in 1..Len(tasks) |->
                         [tasks[i] EXCEPT !.n_manipulator_joints = NJoints,
                                          !.has_chain = (tasks[i].kind = "EndEffectorPose")]]
         /\ UNCHANGED description_received
    ELSE /\ description_received' = TRUE
         /\ UNCHANGED <<n_manipulator_joints, tasks>>

\* the callback is taken and its first step runs
read_robot_description_begin ==
    /\ UNCHANGED <<solveVars, callVars>>
    /\ can_take("read_robot_description_cb")
    /\ nDescriptions < MaxDescriptions
    /\ nDescriptions' = nDescriptions + 1
    /\ subRunning' = "read_robot_description_cb"
    /\ executing' = entered("read_robot_description_cb")
    /\ description_step(description_steps[1])
    /\ UNCHANGED <<state, init_state_received, taskIdx, tickPc,
                   hierarchies, has_set_tasks, modeIdx, solutions, system_velocities,
                   published, nSnapshots, nTicks, completed, updateStart, lookupFailed,
                   updateCalls, solverJacobians,
                   evaluated, lastTick, tickRace>>

\* its second step, the log line of line 193 and the return
read_robot_description_end ==
    /\ UNCHANGED <<solveVars, callVars>>
    /\ subRunning = "read_robot_description_cb"
    /\ description_step(description_steps[2])
    /\ subRunning' = "none"
    /\ executing' = returned("read_robot_description_cb")
    /\ completed' = [completed EXCEPT !["read_robot_description_cb"] = 1]
    /\ UNCHANGED <<state, init_state_received, taskIdx,
                   tickPc, hierarchies, has_set_tasks, modeIdx, solutions,
                   system_velocities, published, nSnapshots, nTicks, nDescriptions, solverJacobians,
                   updateStart, lookupFailed, updateCalls, evaluated, lastTick, tickRace>>

-----------------------------------------------------------------------------
(* update_trajectory_cb *)

\* lines 195-196: the callback is taken; its body is empty
update_trajectory_cb_begin ==
    /\ UNCHANGED <<solveVars, callVars>>
    /\ can_take("update_trajectory_cb")
    /\ executing' = entered("update_trajectory_cb")
    /\ UNCHANGED <<tasks, state, description_received, init_state_received,
                   n_manipulator_joints, subRunning, taskIdx, tickPc, hierarchies,
                   has_set_tasks, modeIdx, solutions, system_velocities, published,
                   nSnapshots, nTicks, nDescriptions, completed, updateStart,
                   lookupFailed, updateCalls, solverJacobians, evaluated, lastTick,
                   tickRace>>

\* the return
update_trajectory_cb_end ==
    /\ UNCHANGED <<solveVars, callVars>>
    /\ executing["update_trajectory_cb"] > 0
    /\ executing' = returned("update_trajectory_cb")
    /\ UNCHANGED <<tasks, state, description_received, init_state_received,
                   n_manipulator_joints, subRunning, taskIdx, tickPc, hierarchies,
                   has_set_tasks, modeIdx, solutions, system_velocities, published,
                   nSnapshots, nTicks, nDescriptions, completed, updateStart,
                   lookupFailed, updateCalls, solverJacobians, evaluated, lastTick,
                   tickRace>>

-----------------------------------------------------------------------------
(* robot_state_cb and update_context *)

\* line 431, and the entry of update_context
robot_state_cb_begin ==
    /\ UNCHANGED <<solveVars, callVars>>
    /\ can_take("robot_state_cb")
    /\ nSnapshots < MaxSnapshots
    /\ nSnapshots' = nSnapshots + 1
    /\ \E msg \in StateMessages :
           state' = [seq |-> nSnapshots + 1, position |-> msg.position,
                     vehicle_pose |-> msg.vehicle_pose]
    /\ subRunning' = "robot_state_cb"
    /\ executing' = entered("robot_state_cb")
    /\ taskIdx' = 1
    /\ updateStart' = tasks
    /\ lookupFailed' = {}
    /\ updateCalls' = {}
    /\ UNCHANGED <<tasks, description_received, init_state_received,
                   n_manipulator_joints, tickPc, hierarchies, has_set_tasks, modeIdx,
                   solutions, system_velocities, published, nTicks, nDescriptions, solverJacobians,
                   completed, evaluated, lastTick, tickRace>>

\* the angle read from the positions with the fixed leading joint still in
joint_limit_angle_with_fixed_joint(position, joint) ==
    position[(joint - VehicleDof) + 1]

\* lines 370-373: joint_angles = position[1:], then
\* np.array(joint_angles)[task.joint - 6]
joint_limit_angle(position, joint) ==
    Tail(position)[(joint - VehicleDof) + 1]

\* the loop stops at the first failed lookup instead of going on
after_failed_lookup_break(i) == Len(tasks) + 1

\* the continue of lines 402 and 416: the loop goes on with the next task
after_failed_lookup(i) == i + 1

\* one iteration of the for loop of update_context, on task taskIdx
update_context_step ==
    /\ UNCHANGED <<solveVars, callVars>>
    /\ subRunning = "robot_state_cb"
    /\ taskIdx <= Len(tasks)
    /\ LET task == tasks[taskIdx]
           joint_angles == Tail(state.position)
       IN CASE task.kind = "JointLimit" ->
                 LET joint_angle == joint_limit_angle(state.position, task.joint)
                 IN /\ tasks' = [tasks EXCEPT ![taskIdx] =
                                    joint_limit_step(task, joint_angle, state.seq)]
                    /\ taskIdx' = taskIdx + 1
                    /\ updateCalls' = updateCalls \cup {taskIdx}
                    /\ UNCHANGED lookupFailed
            [] task.kind = "ManipulatorConfiguration" ->
                 /\ tasks' = [tasks EXCEPT ![taskIdx] =
                                 manipulator_configuration_update(task, joint_angles, state.seq)]
                 /\ taskIdx' = taskIdx + 1
                 /\ updateCalls' = updateCalls \cup {taskIdx}
                 /\ UNCHANGED lookupFailed
            [] task.kind = "EndEffectorPose" ->
                 \E base_ok, ee_ok \in BOOLEAN :
                    IF base_ok /\ ee_ok
                    THEN /\ tasks' = [tasks EXCEPT ![taskIdx] =
                                        end_effector_pose_update(task, joint_angles,
                                                                 state.vehicle_pose, state.seq)]
                         /\ taskIdx' = taskIdx + 1
                         /\ updateCalls' = updateCalls \cup {taskIdx}
                         /\ UNCHANGED lookupFailed
                    ELSE /\ tasks' = [tasks EXCEPT ![taskIdx].stale = TRUE]
                         /\ taskIdx' = after_failed_lookup(taskIdx)
                         /\ lookupFailed' = lookupFailed \cup {taskIdx}
                         /\ UNCHANGED updateCalls
    /\ UNCHANGED <<state, description_received, init_state_received,
                   n_manipulator_joints, subRunning, tickPc, hierarchies, has_set_tasks,
                   modeIdx, solutions, system_velocities, published, nSnapshots, nTicks,
                   nDescriptions, solverJacobians, completed, updateStart, evaluated, lastTick, tickRace,
                   executing>>

\* line 433, after update_context has returned
robot_state_cb_end ==
    /\ UNCHANGED <<solveVars, callVars>>
    /\ subRunning = "robot_state_cb"
    /\ taskIdx > Len(tasks)
    /\ init_state_received' = TRUE
    /\ subRunning' = "none"
    /\ executing' = returned("robot_state_cb")
    /\ completed' = [completed EXCEPT !["robot_state_cb"] = 1]
    /\ taskIdx' = 0
    /\ updateStart' = <<>>
    /\ lookupFailed' = {}
    /\ updateCalls' = {}
    /\ UNCHANGED <<tasks, state, description_received, n_manipulator_joints,
                   tickPc, hierarchies, has_set_tasks, modeIdx, solutions,
                   system_velocities, published, nSnapshots, nTicks, nDescriptions, solverJacobians,
                   evaluated, lastTick, tickRace>>

-----------------------------------------------------------------------------
(* update: the control tick *)

\* a set task whose value is within its bounds passes whatever the projection
satisfied_within_bounds(set_task, solution) ==
    LET projection == MatVec(set_task.jacobian, solution)[1]
    IN \/ (set_task.current_value < set_task.lower /\ projection > 0)
       \/ (set_task.current_value > set_task.upper /\ projection < 0)
       \/ projection = 0
       \/ (set_task.lower <= set_task.current_value /\ set_task.current_value <= set_task.upper)

\* lines 288-303: the direction check of one set task on a candidate
satisfied(set_task, solution) ==
    LET projection == MatVec(set_task.jacobian, solution)[1]
    IN \/ (set_task.current_value < set_task.lower /\ projection > 0)
       \/ (set_task.current_value > set_task.upper /\ projection < 0)
       \/ projection = 0

\* the positions among idxs that hold a set task
SetTasksOf(ts, idxs) == {idxs[k] : k \in {l \in 1..Len(idxs) : IsSetTask(ts[idxs[l]])}}

\* lines 279-281: the set tasks a candidate is checked against are those of
\* hierarchy.active_task_hierarchy, whatever the mode that was solved
checked_set_tasks(ts, mode) == SetTasksOf(ts, active_task_hierarchy(ts))

\* lines 286-305: all(satisfied)
all_satisfied(ts, mode, solution) ==
    \A i \in checked_set_tasks(ts, mode) : satisfied(ts[i], solution)

\* the last index of the largest norm
argmax_norm_last(sols) ==
    CHOOSE i \in 1..Len(sols) :
        /\ \A j \in 1..Len(sols) : NormSq(sols[j]) <= NormSq(sols[i])
        /\ \A j \in (i + 1)..Len(sols) : NormSq(sols[j]) < NormSq(sols[i])

\* line 312: np.argmax([np.linalg.norm(x) for x in solutions]), the first
\* index of the largest norm
argmax_norm(sols) ==
    CHOOSE i \in 1..Len(sols) :
        /\ \A j \in 1..Len(sols) : NormSq(sols[j]) <= NormSq(sols[i])
        /\ \A j \in 1..(i - 1) : NormSq(sols[j]) < NormSq(sols[i])

RECURSIVE Reverse(_)
\* names[::-1]
Reverse(names) == IF names = <<>> THEN <<>> ELSE Reverse(Tail(names)) \o <<Head(names)>>

\* serial_chain.get_joint_parameter_names(): the chain's joints in chain
\* order, joint j named by its number j
joint_parameter_names(n) == [j \in 1..n |-> j]

\* get_robot_trajectory_from_velocities: the vehicle twist, the joint
\* velocities behind the 0.0 of the fixed joint, the joint names behind
\* "alpha_axis_a" (named 0)
\* the leading 0.0 of the fixed joint was left out
get_robot_trajectory_without_fixed_joint(v, n) ==
    [twist |-> [linear |-> [x |-> v[1], y |-> v[2], z |-> v[3]],
                angular |-> [x |-> v[4], y |-> v[5], z |-> v[6]]],
     joint_velocities |-> SubSeq(v, VehicleDof + 1, Len(v)),
     joint_names |-> <<0>> \o Reverse(joint_parameter_names(n))]

get_robot_trajectory_from_velocities(v, n) ==
    [twist |-> [linear |-> [x |-> v[1], y |-> v[2], z |-> v[3]],
                angular |-> [x |-> v[4], y |-> v[5], z |-> v[6]]],
     joint_velocities |-> <<0>> \o SubSeq(v, VehicleDof + 1, Len(v)),
     joint_names |-> <<0>> \o Reverse(joint_parameter_names(n))]

\* lines 255-272: the gate, hierarchies and has_set_tasks
update_begin ==
    /\ UNCHANGED <<solveVars, callVars>>
    /\ can_take("update")
    /\ nTicks < MaxTicks
    /\ nTicks' = nTicks + 1
    /\ IF ~initialized
       THEN /\ lastTick' = [NoTick EXCEPT !.outcome = "uninitialized",
                                          !.prev = lastTick.outcome]
            /\ UNCHANGED <<tickPc, hierarchies, has_set_tasks, modeIdx, solutions,
                           evaluated, tickRace, executing>>
       ELSE /\ tickPc' = "solve"
            /\ executing' = entered("update")
            /\ hierarchies' = hierarchies_of(tasks)
            /\ has_set_tasks' =
                 (\E k \in 1..Len(hierarchies_of(tasks)) :
                     SetTasksOf(tasks, hierarchies_of(tasks)[k]) # {})
            /\ modeIdx' = 1
            /\ solutions' = <<>>
            /\ evaluated' = <<>>
            /\ tickRace' = [partial |-> FALSE, clean |-> subRunning = "none",
                            seen |-> <<nSnapshots, nDescriptions>>]
            /\ UNCHANGED lastTick
    /\ UNCHANGED <<tasks, state, description_received, init_state_received,
                   n_manipulator_joints, subRunning, taskIdx, system_velocities,
                   published, nSnapshots, nDescriptions, solverJacobians, completed, updateStart,
                   lookupFailed, updateCalls>>

\* update_context has updated a task of the mode for the snapshot it is
\* applying and has not yet reached another task of the mode, which still
\* holds the values of an earlier snapshot
PartlyUpdated(mode) ==
    /\ subRunning = "robot_state_cb"
    /\ \E a, b \in 1..Len(mode) :
          /\ tasks[mode[a]].stamp = state.seq
          /\ taskIdx <= mode[b]
          /\ tasks[mode[b]].stamp < state.seq

\* no callback of the default group runs now or has run since the tick began
StillClean ==
    tickRace.clean /\ subRunning = "none" /\ tickRace.seen = <<nSnapshots, nDescriptions>>

\* line 271, or one iteration of the for loop of lines 276-306
update_solve ==
    /\ UNCHANGED <<solveVars, callVars>>
    /\ tickPc = "solve"
    /\ LET mode == hierarchies[modeIdx]
           solution == calculate_system_velocity(TasksAt(tasks, mode), n_manipulator_joints)
           accepted == all_satisfied(tasks, mode, solution)
       IN /\ evaluated' = Append(evaluated,
                 [mode |-> mode, solution |-> solution,
                  checked |-> has_set_tasks,
                  accepted |-> has_set_tasks /\ accepted,
                  own_feasible |-> \A i \in SetTasksOf(tasks, mode) : satisfied(tasks[i], solution),
                  used_stale |-> \E k \in 1..Len(mode) : tasks[mode[k]].stale,
                  clean |-> StillClean])
          /\ solverJacobians' = initial_jacobians \o [k \in 1..Len(mode) |-> tasks[mode[k]].jacobian]
          /\ tickRace' = [tickRace EXCEPT !.partial = (@ \/ PartlyUpdated(mode)),
                                          !.clean = StillClean]
          /\ IF ~has_set_tasks
             THEN /\ system_velocities' = solution
                  /\ tickPc' = "finish"
                  /\ UNCHANGED <<solutions, modeIdx>>
             ELSE /\ solutions' = IF accepted THEN Append(solutions, solution) ELSE solutions
                  /\ modeIdx' = modeIdx + 1
                  /\ tickPc' = IF modeIdx = Len(hierarchies) THEN "finish" ELSE "solve"
                  /\ UNCHANGED system_velocities
    /\ UNCHANGED <<tasks, state, description_received, init_state_received,
                   n_manipulator_joints, subRunning, taskIdx, hierarchies, has_set_tasks,
                   published, nSnapshots, nTicks, nDescriptions, completed, updateStart,
                   lookupFailed, updateCalls, lastTick, executing>>

\* lines 310-313: system_velocities = solutions[np.argmax(...)]
select_solution(sols) == sols[argmax_norm(sols)]

\* the tick publishes whenever it has solved, feasible candidate or not
publishes_always == TRUE

\* the tick withholds the command when a task it solved held stale values
publishes_unless_stale ==
    /\ ~has_set_tasks \/ solutions # <<>>
    /\ \A k \in 1..Len(evaluated) : ~evaluated[k].used_stale

\* the tick takes its command from solutions in both branches
publishes_if_candidate == solutions # <<>>

\* lines 310-316: np.argmax raises on an empty solutions, update logs and returns
publishes == ~has_set_tasks \/ solutions # <<>>

\* lines 308-320: the selection and the publish
update_finish ==
    /\ UNCHANGED <<solveVars, callVars>>
    /\ tickPc = "finish"
    /\ tickPc' = "idle"
    /\ executing' = returned("update")
    /\ LET used_stale == \E k \in 1..Len(evaluated) : evaluated[k].used_stale
           velocity == IF ~has_set_tasks THEN system_velocities
                       ELSE IF solutions # <<>> THEN select_solution(solutions)
                       ELSE ZeroVec(VehicleDof + n_manipulator_joints)
       IN IF publishes
          THEN /\ published' = Append(published,
                      get_robot_trajectory_from_velocities(velocity, n_manipulator_joints))
               /\ lastTick' = [outcome |-> "published", used_stale |-> used_stale,
                               engaged |-> has_set_tasks, accepted |-> Len(solutions),
                               velocity |-> velocity, clean |-> StillClean,
                               prev |-> lastTick.outcome]
          ELSE /\ UNCHANGED published
               /\ lastTick' = [outcome |-> "no_solution", used_stale |-> used_stale,
                               engaged |-> has_set_tasks, accepted |-> Len(solutions),
                               velocity |-> <<>>, clean |-> StillClean,
                               prev |-> lastTick.outcome]
    /\ hierarchies' = <<>> /\ has_set_tasks' = FALSE /\ modeIdx' = 0
    /\ solutions' = <<>> /\ system_velocities' = <<>>
    /\ tickRace' = NoRace
    /\ UNCHANGED <<tasks, state, description_received, init_state_received,
                   n_manipulator_joints, subRunning, taskIdx, nSnapshots, nTicks,
                   nDescriptions, solverJacobians, completed, updateStart, lookupFailed, updateCalls, evaluated>>

-----------------------------------------------------------------------------
(* The node under the executor *)

Init ==
    /\ NodeInit
    /\ solveHierarchy = <<>> /\ solveResult = <<>> /\ solvePc = "off"
    /\ callName = "none" /\ callArgs = <<>> /\ callResult = <<>>

Next ==
    \/ read_robot_description_begin
    \/ read_robot_description_end
    \/ update_trajectory_cb_begin
    \/ update_trajectory_cb_end
    \/ robot_state_cb_begin
    \/ update_context_step
    \/ robot_state_cb_end
    \/ update_begin
    \/ update_solve
    \/ update_finish

vars == <<nodeVars, solveVars, callVars>>

Spec == Init /\ [][Next]_vars

-----------------------------------------------------------------------------
(* calculate_system_velocity on task lists drawn from a pool *)

\* the Jacobians of the pool: one or two unit rows on the first vehicle
\* column and on the last joint column
JacobianPool ==
    { << UnitRow(SystemDof, 1, 1) >>,
      << UnitRow(SystemDof, SystemDof, 1) >>,
      << UnitRow(SystemDof, SystemDof, -1) >>,
      << UnitRow(SystemDof, 1, 1), UnitRow(SystemDof, SystemDof, 1) >> }

\* gain, first error entry and presence of desired_value_dot
ParameterPool == { <<1, 1, FALSE>>, <<2, 1, FALSE>>, <<1, 2, TRUE>> }

TaskPool ==
    { [jacobian |-> J, error |-> [r \in 1..Len(J) |-> q[2] + r - 1], gain |-> q[1],
       desired_value_dot |-> IF q[3] THEN [r \in 1..Len(J) |-> 1] ELSE None] :
        J \in JacobianPool, q \in ParameterPool }

SolveInit ==
    /\ NodeInit
    /\ tasks = <<EndEffectorPoseTask, ManipulatorConfigurationTask>>
    /\ solveHierarchy = <<>> /\ solveResult = <<>> /\ solvePc = "build"
    /\ callName = "none" /\ callArgs = <<>> /\ callResult = <<>>

\* one more task at the end of the list
solve_add_task ==
    /\ solvePc = "build"
    /\ Len(solveHierarchy) < MaxTasks
    /\ \E t \in TaskPool : solveHierarchy' = Append(solveHierarchy, t)
    /\ UNCHANGED <<solveResult, solvePc, nodeVars, callVars>>

\* the call calculate_system_velocity(hierarchy)
solve_run ==
    /\ solvePc = "build"
    /\ solveHierarchy # <<>>
    /\ solveResult' = calculate_system_velocity(solveHierarchy, NJoints)
    /\ solvePc' = "done"
    /\ UNCHANGED <<solveHierarchy, nodeVars, callVars>>

SolveNext == solve_add_task \/ solve_run

SolveSpec == SolveInit /\ [][SolveNext]_vars

-----------------------------------------------------------------------------
(* jacobian.py *)

\* what a call that raised IndexError returns
IndexError == "IndexError"

\* calculate_joint_limit_jacobian: J = np.zeros((1, 6 + n)); J[joint_index] = 1.
\* The index selects a row of J, which has one row: 0 and -1 select it and the
\* whole row is set to 1, any other index raises IndexError.
calculate_joint_limit_jacobian(joint_index, num_manipulator_joints) ==
    IF joint_index \in {-1, 0}
    THEN << AsSeq([j \in 1..(VehicleDof + num_manipulator_joints) |-> 1]) >>
    ELSE IndexError

\* np.cross(a, b) of two 3-vectors
Cross(a, b) ==
    << a[2] * b[3] - a[3] * b[2], a[3] * b[1] - a[1] * b[3], a[1] * b[2] - a[2] * b[1] >>

\* np.linalg.norm(x), for the vectors whose norm is an integer
Norm(x) == CHOOSE r \in 0..NormSq(x) : r * r = NormSq(x)

\* lines 231-236: the cross product of two edges of the plane over its norm
plane_normal(plane) ==
    LET c == Cross(VecSub(plane[2], plane[1]), VecSub(plane[3], plane[1]))
    IN AsSeq([i \in 1..3 |-> c[i] \div Norm(c)])

\* the collision Jacobian written into the leading columns
collision_avoidance_jacobian_leading(plane, J_man, joint_angles) ==
    LET m == Len(joint_angles)
        normal == plane_normal(plane)
        J_pos == SubSeq(J_man, 1, 3)
        row == AsSeq([k \in 1..m |-> -(normal[1] * J_pos[1][k] + normal[2] * J_pos[2][k]
                                        + normal[3] * J_pos[3][k])])
    IN AsSeq([r \in 1..3 |->
           AsSeq([c \in 1..(VehicleDof + m) |-> IF c <= m THEN row[c] ELSE 0])])

\* calculate_vehicle_manipulator_collision_avoidance_jacobian, J_man being
\* what serial_chain.jacobian(joint_angles) returns: -plane_normal.T @ J_pos is
\* a vector of len(joint_angles) entries, and the assignment to J[:, 6:]
\* copies it into each of the three rows
calculate_vehicle_manipulator_collision_avoidance_jacobian(plane, J_man, joint_angles) ==
    LET m == Len(joint_angles)
        normal == plane_normal(plane)
        J_pos == SubSeq(J_man, 1, 3)
        row == AsSeq([k \in 1..m |-> -(normal[1] * J_pos[1][k] + normal[2] * J_pos[2][k]
                                        + normal[3] * J_pos[3][k])])
    IN AsSeq([r \in 1..3 |->
           AsSeq([c \in 1..(VehicleDof + m) |-> IF c <= VehicleDof THEN 0
                                                 ELSE row[c - VehicleDof]])])

\* what a call of np.linalg.inv on a singular matrix raises
LinAlgError == "LinAlgError"

\* the sine and the cosine of k quarter turns
Sin4(k) == CASE k % 4 = 1 -> 1 [] k % 4 = 3 -> -1 [] OTHER -> 0
Cos4(k) == Sin4(k + 1)

MatAdd(A, B) == AsSeq([i \in 1..Len(A) |-> VecAdd(A[i], B[i])])
MatScale(c, A) == AsSeq([i \in 1..Len(A) |-> VecScale(c, A[i])])

\* the cofactor of entry (i, j) of a 3 x 3 matrix, its sign included
Cofactor3(A, i, j) ==
    LET i1 == (i % 3) + 1
        i2 == ((i + 1) % 3) + 1
        j1 == (j % 3) + 1
        j2 == ((j + 1) % 3) + 1
    IN A[i1][j1] * A[i2][j2] - A[i1][j2] * A[i2][j1]

Det3(A) == A[1][1] * Cofactor3(A, 1, 1) + A[1][2] * Cofactor3(A, 1, 2)
           + A[1][3] * Cofactor3(A, 1, 3)

\* np.linalg.inv(A) for a 3 x 3 matrix of determinant 1 or -1: the adjugate
\* over the determinant; a singular matrix raises
Inv3(A) ==
    IF Det3(A) = 0 THEN LinAlgError
    ELSE AsSeq([i \in 1..3 |-> AsSeq([j \in 1..3 |-> Cofactor3(A, j, i) \div Det3(A)])])

\* a rotation is given by its roll, pitch and yaw in quarter turns;
\* quaternion_to_rotation(q).as_matrix() is Rz(yaw) Ry(pitch) Rx(roll)
as_matrix(rot) ==
    LET Rx == << <<1, 0, 0>>,
                 <<0, Cos4(rot.roll), -Sin4(rot.roll)>>,
                 <<0, Sin4(rot.roll), Cos4(rot.roll)>> >>
        Ry == << <<Cos4(rot.pitch), 0, Sin4(rot.pitch)>>,
                 <<0, 1, 0>>,
                 <<-Sin4(rot.pitch), 0, Cos4(rot.pitch)>> >>
        Rz == << <<Cos4(rot.yaw), -Sin4(rot.yaw), 0>>,
                 <<Sin4(rot.yaw), Cos4(rot.yaw), 0>>,
                 <<0, 0, 1>> >>
    IN MatMul(Rz, MatMul(Ry, Rx, 3), 3)

\* np.zeros((rows, n)) with the three columns 3, 4, 5 (counted from 0) set to
\* the rows of block
vehicle_angular_block(rows, n, block) ==
    AsSeq([r \in 1..rows |->
        AsSeq([c \in 1..n |-> IF c \in 4..6 THEN block[r][c - 3] ELSE 0])])

\* calculate_vehicle_angular_velocity_jacobian: J_k,o of the roll and the
\* pitch of rot.as_euler("xyz")
calculate_vehicle_angular_velocity_jacobian(rot_map_to_base) ==
    LET roll == rot_map_to_base.roll
        pitch == rot_map_to_base.pitch
    IN << <<1, 0, -Sin4(pitch)>>,
          <<0, Cos4(roll), Cos4(pitch) * Sin4(roll)>>,
          <<0, -Sin4(roll), Cos4(pitch) * Cos4(roll)>> >>

\* calculate_vehicle_orientation_jacobian
calculate_vehicle_orientation_jacobian(rot_base_to_map, num_manipulator_joints) ==
    vehicle_angular_block(3, VehicleDof + num_manipulator_joints,
                          as_matrix(rot_base_to_map.rotation))

\* calculate_vehicle_roll_pitch_jacobian
calculate_vehicle_roll_pitch_jacobian(rot_map_to_base, num_manipulator_joints) ==
    LET J_ko == calculate_vehicle_angular_velocity_jacobian(rot_map_to_base)
    IN vehicle_angular_block(2, VehicleDof + num_manipulator_joints,
           MatMul(<< <<1, 0, 0>>, <<0, 1, 0>> >>, PinvMatMul(J_ko, 3, Eye(3), 3), 3))

\* the yaw Jacobian written into the leading columns
calculate_vehicle_yaw_jacobian_leading(rot_map_to_base, num_manipulator_joints) ==
    LET J_ko == calculate_vehicle_angular_velocity_jacobian(rot_map_to_base)
        block == MatMul(<< <<0, 0, 1>> >>, Inv3(J_ko), 3)
    IN AsSeq([r \in 1..1 |->
           AsSeq([c \in 1..(VehicleDof + num_manipulator_joints) |->
                     IF c \in 1..3 THEN block[r][c] ELSE 0])])

\* calculate_vehicle_yaw_jacobian: np.array([0, 0, 1]) @ np.linalg.inv(J_ko)
\* is a vector of three entries, written into the one row of J
calculate_vehicle_yaw_jacobian(rot_map_to_base, num_manipulator_joints) ==
    LET J_ko == calculate_vehicle_angular_velocity_jacobian(rot_map_to_base)
    IN vehicle_angular_block(1, VehicleDof + num_manipulator_joints,
                             MatMul(<< <<0, 0, 1>> >>, Inv3(J_ko), 3))

\* get_skew_matrix of calculate_uvms_jacobian
get_skew_matrix(x) ==
    << <<0, -x[3], x[2]>>, <<x[3], 0, -x[1]>>, <<-x[2], x[1], 0>> >>

\* the four blocks calculate_uvms_jacobian computes: lines 158-173 and the
\* right-hand sides of lines 184-190
uvms_blocks(J_man, transform_map_to_base, transform_manipulator_base_to_base, transform_map_to_end_effector) ==
    LET m == Len(J_man[1])
        r_MB_M == transform_map_to_base.translation
        r_0B_B == transform_manipulator_base_to_base.translation
        r_Mee_M == transform_map_to_end_effector.translation
        R_0_B == as_matrix(transform_manipulator_base_to_base.rotation)
        R_B_M == Inv3(as_matrix(transform_map_to_base.rotation))
        R_0_M == MatMul(R_B_M, R_0_B, 3)
        r_B0_M == MatVec(R_B_M, r_0B_B)
        r_0ee_M == VecSub(VecSub(r_Mee_M, r_MB_M), r_B0_M)
    IN [R_B_M |-> R_B_M,
        lever |-> MatScale(-1, MatMul(MatAdd(get_skew_matrix(r_B0_M),
                                             get_skew_matrix(r_0ee_M)), R_B_M, 3)),
        position |-> MatMul(R_0_M, SubSeq(J_man, 1, 3), m),
        orientation |-> MatMul(R_0_M, SubSeq(J_man, 4, 6), m)]

\* the UVMS Jacobian with the vehicle rotation of the orientation rows
\* written into the leading columns
calculate_uvms_jacobian_orientation_leading(J_man, joint_angles, transform_map_to_base, transform_manipulator_base_to_base, transform_map_to_end_effector) ==
    LET b == uvms_blocks(J_man, transform_map_to_base, transform_manipulator_base_to_base,
                         transform_map_to_end_effector)
    IN AsSeq([r \in 1..6 |->
           AsSeq([c \in 1..(VehicleDof + Len(joint_angles)) |->
              IF r <= 3
              THEN (IF c <= 3 THEN b.R_B_M[r][c]
                    ELSE IF c <= 6 THEN b.lever[r][c - 3]
                    ELSE b.position[r][c - 6])
              ELSE (IF c <= 3 THEN b.R_B_M[r - 3][c]
                    ELSE IF c <= 6 THEN 0
                    ELSE b.orientation[r - 3][c - 6])])])

\* calculate_uvms_jacobian, J_man being what serial_chain.jacobian(joint_angles)
\* returns: J = np.zeros((6, 6 + len(joint_angles))) and the five block
\* assignments of lines 184-190
calculate_uvms_jacobian(J_man, joint_angles, transform_map_to_base, transform_manipulator_base_to_base, transform_map_to_end_effector) ==
    LET b == uvms_blocks(J_man, transform_map_to_base, transform_manipulator_base_to_base,
                         transform_map_to_end_effector)
    IN AsSeq([r \in 1..6 |->
           AsSeq([c \in 1..(VehicleDof + Len(joint_angles)) |->
              IF r <= 3
              THEN (IF c <= 3 THEN b.R_B_M[r][c]
                    ELSE IF c <= 6 THEN b.lever[r][c - 3]
                    ELSE b.position[r][c - 6])
              ELSE (IF c <= 3 THEN 0
                    ELSE IF c <= 6 THEN b.R_B_M[r - 3][c - 3]
                    ELSE b.orientation[r - 3][c - 6])])])

-----------------------------------------------------------------------------
(* mission_planner.py *)

\* PrePlannedMissionPlanner.plan: the waypoints of the mission loaded at
\* construction, whatever the request
plan(mission_waypoints, start_pose, goal_pose, timeout) == mission_waypoints

\* the goal succeeds and carries the mission even when the mission is empty
get_plan_cb_always_succeeds(mission_waypoints, request) ==
    LET mission == plan(mission_waypoints, request.current_pose, request.goal_pose,
                        request.timeout)
    IN [goal_calls |-> <<"succeed">>, result |-> [mission |-> mission]]

\* MissionPlanner._get_plan_cb: the calls made on the goal, in order, and the
\* result returned; PlanMission.Result() holds an empty mission
get_plan_cb(mission_waypoints, request) ==
    LET mission == plan(mission_waypoints, request.current_pose, request.goal_pose,
                        request.timeout)
    IN IF mission = <<>>
       THEN [goal_calls |-> <<"abort">>, result |-> [mission |-> <<>>]]
       ELSE [goal_calls |-> <<"succeed">>, result |-> [mission |-> mission]]

-----------------------------------------------------------------------------
(* localizer.py *)

\* what an access to an attribute a message does not have raises
AttributeError == "AttributeError"

\* the fields of geometry_msgs/PoseStamped
PoseStampedFields == {"header", "pose"}

\* the ArUco dictionaries detect_markers tries, in the order of
\* ARUCO_MARKER_TYPES (two of them here)
ArucoMarkerTypes == <<1, 2>>

RECURSIVE detect_from(_, _)
\* detect_markers from position k of ARUCO_MARKER_TYPES on: the markers of the
\* first dictionary that finds any; cv2 returns ids = None when it finds none,
\* len(None) raises, and the except clause goes on with the next dictionary
detect_from(frame, k) ==
    IF k > Len(ArucoMarkerTypes) THEN None
    ELSE LET found == SelectSeq(frame, LAMBDA marker : marker.type = ArucoMarkerTypes[k])
         IN IF Len(found) > 0 THEN found ELSE detect_from(frame, k + 1)

\* ArucoMarkerLocalizer.detect_markers
detect_markers(frame) == detect_from(frame, 1)

\* ArucoMarkerLocalizer.get_camera_pose: the pose from the marker with the
\* longest side, the first of them (list.index of the maximum)
get_camera_pose(frame) ==
    LET detection == detect_markers(frame)
    IN IF detection = None THEN None
       ELSE LET min_side_idx ==
                    CHOOSE i \in 1..Len(detection) :
                        /\ \A j \in 1..Len(detection) : detection[j].side <= detection[i].side
                        /\ \A j \in 1..(i - 1) : detection[j].side < detection[i].side
            IN [marker_id |-> detection[min_side_idx].id,
                trans_vec |-> detection[min_side_idx].side]

\* the callback without the early exit of lines 210-214
extract_and_publish_pose_cb_without_early_exit(frame, transform_available) ==
    LET camera_pose == get_camera_pose(frame)
    IN [detected |-> camera_pose # None, transform |-> "ok",
        published |-> << [frame_id |-> "map", pose |-> camera_pose] >>,
        outcome |-> "returned"]

\* ArucoMarkerLocalizer.extract_and_publish_pose_cb: whether a marker was
\* detected, what tf_buffer.transform did, what was published and how the
\* callback ended.  Lines 224-228 assign pose.position.x, y, z on a
\* PoseStamped, which has no attribute position.
extract_and_publish_pose_cb(frame, transform_available) ==
    LET camera_pose == get_camera_pose(frame)
    IN IF camera_pose = None
       THEN [detected |-> FALSE, transform |-> "not_called", published |-> <<>>,
             outcome |-> "returned"]
       ELSE IF "position" \notin PoseStampedFields
       THEN [detected |-> TRUE, transform |-> "not_called", published |-> <<>>,
             outcome |-> AttributeError]
       ELSE IF ~transform_available
       THEN [detected |-> TRUE, transform |-> "raised", published |-> <<>>,
             outcome |-> "returned"]
       ELSE [detected |-> TRUE, transform |-> "ok",
             published |-> << [frame_id |-> "map", pose |-> camera_pose] >>,
             outcome |-> "returned"]

-----------------------------------------------------------------------------
(* Direct calls of the helper functions on inputs drawn from bounded sets,   *)
(* one call in a behaviour                                                   *)

\* the points a plane is drawn from
PlanePoints == { <<x, y, z>> : x, y, z \in 0..1 }

\* the planes: three non-collinear points whose normal has integer entries
Planes ==
    { pl \in PlanePoints \X PlanePoints \X PlanePoints :
        LET c == Cross(VecSub(pl[2], pl[1]), VecSub(pl[3], pl[1]))
        IN /\ NormSq(c) > 0
           /\ \E r \in 1..NormSq(c) : r * r = NormSq(c) /\ \A i \in 1..3 : c[i] % r = 0 }

\* what serial_chain.jacobian returns for a chain of m joints: six rows, the
\* entry of row r and joint k being a[r] k on the position rows
ManipulatorJacobians(m) ==
    { [r \in 1..6 |-> [k \in 1..m |-> IF r <= 3 THEN a[r] * k ELSE 0]] :
        a \in [1..3 -> -1..1] }

CallInit ==
    /\ NodeInit
    /\ tasks = <<EndEffectorPoseTask, ManipulatorConfigurationTask>>
    /\ solveHierarchy = <<>> /\ solveResult = <<>> /\ solvePc = "off"
    /\ callName = "none" /\ callArgs = <<>> /\ callResult = <<>>

call_get_robot_trajectory_from_velocities ==
    /\ callName = "none"
    /\ \E m \in 1..MaxChainJoints : \E v \in [1..(VehicleDof + m) -> 0..VMax] :
          /\ callArgs' = <<AsSeq(v), m>>
          /\ callResult' = get_robot_trajectory_from_velocities(AsSeq(v), m)
    /\ callName' = "get_robot_trajectory_from_velocities"
    /\ UNCHANGED <<nodeVars, solveVars>>

call_calculate_joint_limit_jacobian ==
    /\ callName = "none"
    /\ \E m \in 1..MaxChainJoints : \E joint_index \in 0..(VehicleDof + m - 1) :
          /\ callArgs' = <<joint_index, m>>
          /\ callResult' = calculate_joint_limit_jacobian(joint_index, m)
    /\ callName' = "calculate_joint_limit_jacobian"
    /\ UNCHANGED <<nodeVars, solveVars>>

call_calculate_collision_avoidance_jacobian ==
    /\ callName = "none"
    /\ \E m \in 1..MaxChainJoints : \E plane \in Planes : \E J_man \in ManipulatorJacobians(m) :
          /\ callArgs' = <<plane, J_man, ZeroVec(m)>>
          /\ callResult' = calculate_vehicle_manipulator_collision_avoidance_jacobian(
                                plane, J_man, ZeroVec(m))
    /\ callName' = "calculate_vehicle_manipulator_collision_avoidance_jacobian"
    /\ UNCHANGED <<nodeVars, solveVars>>

\* the vehicle rotations: every roll and yaw of quarter turns at pitch 0,
\* where the Euler angles of the rotation are unique
VehicleRotations == { [roll |-> r, pitch |-> 0, yaw |-> y] : r, y \in 0..3 }

\* the rotations and translations of the transforms of the UVMS Jacobian
UvmsRotations == { [roll |-> r, pitch |-> p, yaw |-> y] : r, p, y \in 0..1 }
UvmsTranslations == { <<0, 0, 0>>, <<1, 0, 0>>, <<0, 1, 2>> }
IdentityRotation == [roll |-> 0, pitch |-> 0, yaw |-> 0]

\* what serial_chain.jacobian returns in the calls of the UVMS Jacobian:
\* joint k moves the end effector along x and z and turns it about y, or
\* moves it along y and turns it about x and z
UvmsManipulatorJacobians(m) ==
    { [r \in 1..6 |-> [k \in 1..m |-> a[r] * k]] :
        a \in { <<1, 0, -1, 0, 1, 0>>, <<0, 1, 0, -1, 0, 1>> } }

call_calculate_vehicle_orientation_jacobian ==
    /\ callName = "none"
    /\ \E m \in 1..MaxChainJoints : \E rot \in VehicleRotations :
          LET tf == [translation |-> <<0, 0, 0>>, rotation |-> rot]
          IN /\ callArgs' = <<tf, m>>
             /\ callResult' = calculate_vehicle_orientation_jacobian(tf, m)
    /\ callName' = "calculate_vehicle_orientation_jacobian"
    /\ UNCHANGED <<nodeVars, solveVars>>

call_calculate_vehicle_roll_pitch_jacobian ==
    /\ callName = "none"
    /\ \E m \in 1..MaxChainJoints : \E rot \in VehicleRotations :
          /\ callArgs' = <<rot, m>>
          /\ callResult' = calculate_vehicle_roll_pitch_jacobian(rot, m)
    /\ callName' = "calculate_vehicle_roll_pitch_jacobian"
    /\ UNCHANGED <<nodeVars, solveVars>>

call_calculate_vehicle_yaw_jacobian ==
    /\ callName = "none"
    /\ \E m \in 1..MaxChainJoints : \E rot \in VehicleRotations :
          /\ callArgs' = <<rot, m>>
          /\ callResult' = calculate_vehicle_yaw_jacobian(rot, m)
    /\ callName' = "calculate_vehicle_yaw_jacobian"
    /\ UNCHANGED <<nodeVars, solveVars>>

call_calculate_uvms_jacobian ==
    /\ callName = "none"
    /\ \E m \in 1..MaxChainJoints : \E J_man \in UvmsManipulatorJacobians(m) :
       \E R1, R2 \in UvmsRotations : \E t1, t2, t3 \in UvmsTranslations :
          LET tf_map_to_base == [translation |-> t1, rotation |-> R1]
              tf_manipulator_base_to_base == [translation |-> t2, rotation |-> R2]
              tf_map_to_end_effector == [translation |-> t3, rotation |-> IdentityRotation]
          IN /\ callArgs' = <<J_man, ZeroVec(m), tf_map_to_base,
                              tf_manipulator_base_to_base, tf_map_to_end_effector>>
             /\ callResult' = calculate_uvms_jacobian(J_man, ZeroVec(m), tf_map_to_base,
                                                      tf_manipulator_base_to_base,
                                                      tf_map_to_end_effector)
    /\ callName' = "calculate_uvms_jacobian"
    /\ UNCHANGED <<nodeVars, solveVars>>

\* the set tasks of the calls of the feasibility check: a joint-limit task on
\* the last column, its value, its activation and the sign of its row
SetTaskSamples ==
    { [JointLimitTask EXCEPT !.n_manipulator_joints = NJoints,
                             !.joint = SystemDof - 1,
                             !.current_value = cv,
                             !.active = a,
                             !.jacobian = << UnitRow(SystemDof, SystemDof, sign) >>] :
        cv \in 0..QMax, a \in BOOLEAN, sign \in {-1, 1} }

\* lines 279-306 on the tasks ts of the hierarchy and one candidate
call_all_satisfied ==
    /\ callName = "none"
    /\ \E n \in 0..2 : \E ts \in [1..n -> SetTaskSamples] : \E rate \in -1..1 :
          LET solution == UnitRow(SystemDof, SystemDof, rate)
          IN /\ callArgs' = <<AsSeq(ts), solution>>
             /\ callResult' = all_satisfied(AsSeq(ts), active_task_hierarchy(AsSeq(ts)), solution)
    /\ callName' = "all_satisfied"
    /\ UNCHANGED <<nodeVars, solveVars>>

\* the candidates of the calls of the selection: rates on the first vehicle
\* column and on the joint column, several of them of one norm
CandidateSamples ==
    { UnitRow(SystemDof, c, rate) : c \in {1, SystemDof}, rate \in {-1, 0, 1, 2} }

\* lines 310-313 on the candidates that passed the check, in the order of
\* hierarchy.hierarchies in which the loop appended them
call_select_solution ==
    /\ callName = "none"
    /\ \E n \in 1..MaxTasks : \E sols \in [1..n -> CandidateSamples] :
          /\ callArgs' = <<AsSeq(sols)>>
          /\ callResult' = select_solution(AsSeq(sols))
    /\ callName' = "select_solution"
    /\ UNCHANGED <<nodeVars, solveVars>>

\* the waypoints a mission is made of, and the planning requests
Waypoints == 1..3
PlanRequests ==
    { [current_pose |-> a, goal_pose |-> b, timeout |-> 1] : a, b \in 0..1 }

\* one planning request served by a planner whose library mission holds up to
\* MaxWaypoints waypoints
call_get_plan_cb ==
    /\ callName = "none"
    /\ \E n \in 0..MaxWaypoints : \E mission \in [1..n -> Waypoints] :
       \E request \in PlanRequests :
          /\ callArgs' = <<AsSeq(mission), request>>
          /\ callResult' = get_plan_cb(AsSeq(mission), request)
    /\ callName' = "get_plan_cb"
    /\ UNCHANGED <<nodeVars, solveVars>>

\* the markers of a camera frame: the dictionary a marker belongs to (0: a
\* pattern of none of ARUCO_MARKER_TYPES), its id and the length of its side
\* in the image
Markers == { [type |-> t, id |-> i, side |-> l] : t \in 0..2, i \in 1..2, l \in 1..2 }

\* one camera frame of up to MaxMarkers markers, the transform to map
\* available or not
call_extract_and_publish_pose_cb ==
    /\ callName = "none"
    /\ \E n \in 0..MaxMarkers : \E frame \in [1..n -> Markers] :
       \E transform_available \in BOOLEAN :
          /\ callArgs' = <<AsSeq(frame), transform_available>>
          /\ callResult' = extract_and_publish_pose_cb(AsSeq(frame), transform_available)
    /\ callName' = "extract_and_publish_pose_cb"
    /\ UNCHANGED <<nodeVars, solveVars>>

CallNext ==
    \/ call_get_plan_cb
    \/ call_extract_and_publish_pose_cb
    \/ call_all_satisfied
    \/ call_select_solution
    \/ call_get_robot_trajectory_from_velocities
    \/ call_calculate_joint_limit_jacobian
    \/ call_calculate_collision_avoidance_jacobian
    \/ call_calculate_vehicle_orientation_jacobian
    \/ call_calculate_vehicle_roll_pitch_jacobian
    \/ call_calculate_vehicle_yaw_jacobian
    \/ call_calculate_uvms_jacobian

CallSpec == CallInit /\ [][CallNext]_vars

-----------------------------------------------------------------------------
(* Properties *)

RECURSIVE reference_velocity(_, _, _, _)
\* the task-priority recursion: v_i = v_(i-1) + pinv(J_i N_(i-1)) (tdot_i +
\* K_i e_i - J_i v_(i-1)), N_i = I - pinv(JA_i) JA_i, and v_k at the end
reference_velocity(hierarchy, v, stack, N) ==
    IF hierarchy = <<>>
    THEN v
    ELSE LET t == Head(hierarchy)
             n == Len(N)
             tdot == IF t.desired_value_dot # None THEN t.desired_value_dot
                     ELSE ZeroVec(Len(t.error))
             vi == VecAdd(v, PinvMatVec(MatMul(t.jacobian, N, n), n,
                                        VecSub(VecAdd(tdot, VecScale(t.gain, t.error)),
                                               MatVec(t.jacobian, v))))
             JA == stack \o t.jacobian
         IN reference_velocity(Tail(hierarchy), vi, JA,
                               MatSub(Eye(n), PinvMatMul(JA, n, JA, n)))

\* C3: for every task list of length k >= 1, calculate_system_velocity
\* returns v_k of the task-priority recursion started from v_0 = 0, N_0 = I
C3_SolverFollowsRecursion ==
    solvePc = "done" =>
        solveResult = reference_velocity(solveHierarchy, ZeroVec(SystemDof), <<>>,
                                         Eye(SystemDof))

\* the terms of the sum calculate_system_velocity returned
SolveUpdates ==
    rec_updates(solveHierarchy, ZeroVec(SystemDof), <<>>, Eye(SystemDof))

RECURSIVE SumVecs(_, _)
\* us[1] + ... + us[k]
SumVecs(us, k) == IF k = 0 THEN ZeroVec(SystemDof) ELSE VecAdd(us[k], SumVecs(us, k - 1))

\* C4: for positions i < j of the task list the velocity added by task j is
\* in the nullspace of J_i, and J_i times the returned velocity equals J_i
\* times the velocity accumulated over tasks 1..i
C4_PriorityPreserved ==
    solvePc = "done" =>
        /\ \A j \in 1..Len(solveHierarchy) : \A i \in 1..(j - 1) :
              MatVec(solveHierarchy[i].jacobian, SolveUpdates[j])
                  = ZeroVec(Len(solveHierarchy[i].jacobian))
        /\ \A i \in 1..(Len(solveHierarchy) - 1) :
              MatVec(solveHierarchy[i].jacobian, solveResult)
                  = MatVec(solveHierarchy[i].jacobian, SumVecs(SolveUpdates, i))

\* three tasks, the third competing with the first for a column and still
\* adding a non-zero velocity
C4_Witness ==
    /\ solvePc = "done"
    /\ Len(solveHierarchy) = 3
    /\ \E c \in 1..SystemDof :
          /\ ColCount(solveHierarchy[1].jacobian, c) > 0
          /\ ColCount(solveHierarchy[3].jacobian, c) > 0
    /\ SolveUpdates[3] # ZeroVec(SystemDof)
    /\ SolveUpdates[1] # ZeroVec(SystemDof)

\* C1: robot_state_cb (with its update_context loop) and the control tick
\* update never execute at the same time
C1_StateUpdateExcludesTick ==
    ~(subRunning = "robot_state_cb" /\ tickPc # "idle")

\* C2: a tick never solves a task list of which update_context has updated
\* some tasks for the snapshot it is applying and not yet the others
C2_TickReadsWholeSnapshot == ~tickRace.partial

\* C5: with arbitration engaged, a mode's candidate is accepted exactly when
\* every set task of that mode's own list passes the direction check (stated
\* for the ticks beside which no other callback ran)
C5_AcceptedIffOwnSetTasksPass ==
    \A k \in 1..Len(evaluated) :
        (has_set_tasks /\ evaluated[k].clean) =>
            (evaluated[k].accepted <=> evaluated[k].own_feasible)

\* the tick that ended last went through arbitration
ArbitratedTick ==
    /\ tickPc = "idle"
    /\ lastTick.outcome \in {"published", "no_solution"}
    /\ lastTick.engaged

\* C6: when arbitration is engaged and some mode is feasible, the published
\* velocity is the candidate of a feasible mode and no feasible candidate has
\* a larger norm (stated for the ticks beside which no other callback ran)
C6_PublishesLargestFeasible ==
    (/\ ArbitratedTick
     /\ lastTick.clean
     /\ \E k \in 1..Len(evaluated) : evaluated[k].own_feasible) =>
        /\ lastTick.outcome = "published"
        /\ \E k \in 1..Len(evaluated) :
              /\ evaluated[k].own_feasible
              /\ evaluated[k].solution = lastTick.velocity
        /\ \A k \in 1..Len(evaluated) :
              evaluated[k].own_feasible =>
                  NormSq(evaluated[k].solution) <= NormSq(lastTick.velocity)

C8_NoCommandOnStaleTask ==
    (tickPc = "idle" /\ lastTick.used_stale) => lastTick.outcome # "published"

\* C8, amended: a tick that solved a task holding stale values emits its
\* command like any other tick: it publishes unless arbitration was engaged
\* and no candidate passed the check
C8_StaleTaskDoesNotSuppressCommand ==
    (/\ tickPc = "idle"
     /\ lastTick.outcome \in {"published", "no_solution"}
     /\ lastTick.used_stale) =>
        (lastTick.outcome = "published" <=> (~lastTick.engaged \/ lastTick.accepted > 0))

\* a tick that solved a stale end-effector task and published
C8_Witness ==
    /\ tickPc = "idle"
    /\ lastTick.outcome = "published"
    /\ lastTick.used_stale
    /\ lastTick.clean

\* C9: while update_context applies a snapshot, every task it has passed
\* whose lookup failed keeps the jacobian, error and value it had on entry,
\* and every other task it has passed has been updated for the snapshot;
\* the loop passes every task
C9_FailedLookupSkipsOnlyThatTask ==
    subRunning = "robot_state_cb" =>
        /\ taskIdx \in 1..(Len(tasks) + 1)
        /\ \A i \in 1..Len(tasks) :
              /\ (i \in lookupFailed) =>
                    /\ i < taskIdx
                    /\ tasks[i].kind = "EndEffectorPose"
                    /\ tasks[i].jacobian = updateStart[i].jacobian
                    /\ tasks[i].error = updateStart[i].error
                    /\ tasks[i].stamp = updateStart[i].stamp
              /\ (i < taskIdx /\ i \notin lookupFailed /\ description_received) =>
                    tasks[i].stamp = state.seq
        /\ (taskIdx = Len(tasks) + 1 /\ description_received) =>
              \A i \in 1..Len(tasks) : i \in lookupFailed \/ tasks[i].stamp = state.seq

\* the second snapshot applied, the lookup of the end-effector task in the
\* middle failed, the tasks before and after it updated
C9_Witness ==
    /\ subRunning = "robot_state_cb"
    /\ taskIdx = Len(tasks) + 1
    /\ Len(tasks) = 3
    /\ lookupFailed = {2}
    /\ state.seq = 2
    /\ tasks[1].stamp = 2 /\ tasks[2].stamp = 1 /\ tasks[3].stamp = 2

\* C10: a tick solves, and a command is published, only after a
\* read_robot_description_cb and a robot_state_cb have run to their end
C10_NoPublishBeforeInitialized ==
    (published # <<>> \/ tickPc # "idle") =>
        /\ completed["read_robot_description_cb"] = 1
        /\ completed["robot_state_cb"] = 1

\* a first tick stopped at the gate, the second one published (the hierarchy
\* without set tasks publishes on every initialized tick)
C10_Witness ==
    /\ Len(tasks) = 2
    /\ nTicks = 2
    /\ Len(published) = 1
    /\ lastTick.outcome = "published"
    /\ lastTick.prev = "uninitialized"

\* C11: while robot_state_cb applies a snapshot that arrived before any robot
\* description, update_context invokes no task's update
C11_StateBeforeDescriptionSkipsUpdates ==
    (subRunning = "robot_state_cb" /\ ~description_received) => updateCalls = {}

\* C12: the step that ends a tick in which no mode holds a set task has
\* solved exactly one mode, the first, without the set-task check, and
\* publishes the command of that mode's velocity
C12_NoSetTaskPublishesFirstMode ==
    [][(tickPc = "finish" /\ tickPc' # "finish" /\ ~has_set_tasks) =>
          /\ Len(evaluated) = 1
          /\ evaluated[1].mode = hierarchies[1]
          /\ ~evaluated[1].checked
          /\ published' = Append(published,
                 get_robot_trajectory_from_velocities(evaluated[1].solution,
                                                      n_manipulator_joints))
          /\ lastTick'.outcome = "published"]_vars

\* a hierarchy that holds a joint-limit task, inactive, and a tick that
\* published without arbitration
C12_Witness ==
    /\ tickPc = "idle"
    /\ lastTick.outcome = "published"
    /\ ~lastTick.engaged
    /\ Len(evaluated) = 1
    /\ \E i \in 1..Len(tasks) : IsSetTask(tasks[i]) /\ ~tasks[i].active

\* the rows of J are linearly independent (on unit rows: every row has an
\* entry and no two rows share a column)
FullRowRank(J) ==
    /\ \A r \in 1..Len(J) : Support(J[r]) # {}
    /\ \A c \in 1..Len(J[1]) : ColCount(J, c) <= 1

\* C13: for a list of one task with a full-row-rank Jacobian,
\* calculate_system_velocity returns pinv(J) (tdot + K e)
C13_SingleTaskClosedForm ==
    (solvePc = "done" /\ Len(solveHierarchy) = 1 /\ FullRowRank(solveHierarchy[1].jacobian)) =>
        LET t == solveHierarchy[1]
            tdot == IF t.desired_value_dot # None THEN t.desired_value_dot
                    ELSE ZeroVec(Len(t.error))
        IN solveResult = PinvMatVec(t.jacobian, SystemDof,
                                    VecAdd(tdot, VecScale(t.gain, t.error)))

\* the Jacobians of the task list, in order
SolveJacobians == [k \in 1..Len(solveHierarchy) |-> solveHierarchy[k].jacobian]

\* the nullspace of the augmented Jacobian of the task list
SolveNullspace ==
    calculate_nullspace(construct_augmented_jacobian(SolveJacobians), SystemDof)

\* C17: the nullspace of the augmented Jacobian of a non-empty list of
\* Jacobians with n columns is n x n, idempotent, symmetric, and every stacked
\* Jacobian times it is zero
C17_NullspaceIsProjector ==
    solveHierarchy # <<>> =>
        LET N == SolveNullspace
            n == SystemDof
        IN /\ Len(N) = n
           /\ \A i \in 1..n : Len(N[i]) = n
           /\ MatMul(N, N, n) = N
           /\ \A i, j \in 1..n : N[i][j] = N[j][i]
           /\ \A k \in 1..Len(solveHierarchy) :
                 MatMul(solveHierarchy[k].jacobian, N, n)
                     = ZeroMat(Len(solveHierarchy[k].jacobian), n)

\* three stacked Jacobians, two of them on the same column, and a nullspace
\* that is neither zero nor the identity
C17_Witness ==
    /\ Len(solveHierarchy) = 3
    /\ \E c \in 1..SystemDof :
          ColCount(construct_augmented_jacobian(SolveJacobians), c) >= 2
    /\ SolveNullspace # Eye(SystemDof)
    /\ SolveNullspace # ZeroMat(SystemDof, SystemDof)

\* the latest direct call was one of get_robot_trajectory_from_velocities
TrajectoryCall == callName = "get_robot_trajectory_from_velocities"

\* C14: get_robot_trajectory_from_velocities puts entries 0..5 of the
\* velocity into the twist as linear x, y, z and angular x, y, z, and the
\* entries 6..n-1 behind a leading 0 into the joint velocities; the joint
\* velocities and the joint names both have 1 + (n - 6) entries
C14_TrajectoryPartitionsVelocity ==
    TrajectoryCall =>
        LET v == callArgs[1]
            r == callResult
            m == Len(v) - VehicleDof
        IN /\ r.twist.linear = [x |-> v[1], y |-> v[2], z |-> v[3]]
           /\ r.twist.angular = [x |-> v[4], y |-> v[5], z |-> v[6]]
           /\ Len(r.joint_velocities) = 1 + m
           /\ Len(r.joint_names) = 1 + m
           /\ r.joint_velocities[1] = 0
           /\ \A k \in 1..m : r.joint_velocities[1 + k] = v[VehicleDof + k]

\* a velocity of two joints whose neighbouring entries differ
C14_Witness ==
    /\ TrajectoryCall
    /\ callArgs[2] = 2
    /\ callArgs[1][7] # callArgs[1][8]
    /\ callArgs[1][6] # callArgs[1][7]
    /\ callArgs[1][1] # callArgs[1][2]
    /\ callArgs[1][3] # callArgs[1][4]

\* C15: in the command the rate of every chain joint j, entry 6 + j of the
\* velocity, stands at the position of the name of joint j
C15_RatesFollowReversedNames ==
    TrajectoryCall =>
        LET v == callArgs[1]
            r == callResult
        IN \A j \in 1..callArgs[2] :
              \E pos \in 1..Len(r.joint_names) :
                 /\ r.joint_names[pos] = j
                 /\ pos <= Len(r.joint_velocities)
                 /\ r.joint_velocities[pos] = v[VehicleDof + j]

\* C16: for every column index joint_index of a system of 6 + n columns,
\* calculate_joint_limit_jacobian returns the 1 x (6 + n) unit row of that
\* column and does not raise
C16_JointLimitJacobianIsUnitRow ==
    callName = "calculate_joint_limit_jacobian" =>
        callResult = << UnitRow(VehicleDof + callArgs[2], callArgs[1] + 1, 1) >>

\* C20: the collision avoidance Jacobian has 6 + len(joint_angles) columns,
\* its vehicle columns are zero, and for the plane (0,0,0), (1,0,0), (0,1,0)
\* the normal is (0,0,1) and every entry of the joint columns is minus the
\* entry of the z row of the manipulator position Jacobian
C20_CollisionJacobianVehicleColumnsZero ==
    callName = "calculate_vehicle_manipulator_collision_avoidance_jacobian" =>
        LET plane == callArgs[1]
            J_man == callArgs[2]
            m == Len(callArgs[3])
            J == callResult
        IN /\ \A r \in 1..Len(J) :
                 /\ Len(J[r]) = VehicleDof + m
                 /\ \A c \in 1..VehicleDof : J[r][c] = 0
           /\ plane = << <<0, 0, 0>>, <<1, 0, 0>>, <<0, 1, 0>> >> =>
                 /\ plane_normal(plane) = <<0, 0, 1>>
                 /\ \A r \in 1..Len(J) : \A k \in 1..m :
                       J[r][VehicleDof + k] = -J_man[3][k]

\* the plane z = 0 and a chain of two joints that move along z
C20_Witness ==
    /\ callName = "calculate_vehicle_manipulator_collision_avoidance_jacobian"
    /\ callArgs[1] = << <<0, 0, 0>>, <<1, 0, 0>>, <<0, 1, 0>> >>
    /\ Len(callArgs[3]) = 2
    /\ callArgs[2][3][1] # 0
    /\ callArgs[2][1][1] # callArgs[2][3][1]
    /\ Len(callResult) = 3

\* calculate_system_velocity on a task list, started from a zero velocity, an
\* empty list of Jacobians and the identity nullspace
FreshSolution(hierarchy) ==
    calculate_system_velocity_rec(hierarchy, ZeroVec(VehicleDof + n_manipulator_joints),
                                  <<>>, Eye(Len(hierarchy[1].jacobian[1])))

\* C18: every solve of a tick leaves the tasks and the modes as they were and
\* yields the velocity of a solve started from a zero velocity, an empty
\* Jacobian list and the identity nullspace, whatever was solved before it
C18_SolverIsStateless ==
    [][(tickPc = "solve" /\ Len(evaluated') = Len(evaluated) + 1) =>
          /\ tasks' = tasks
          /\ hierarchies' = hierarchies
          /\ evaluated'[Len(evaluated')].solution
                 = FreshSolution(TasksAt(tasks, hierarchies[modeIdx]))]_vars

\* the second tick that solved, and in it the second mode
C18_Witness ==
    /\ tickPc = "idle"
    /\ nTicks = 2
    /\ lastTick.prev \in {"published", "no_solution"}
    /\ Len(evaluated) = 2
    /\ Len(evaluated[1].mode) = 2
    /\ solverJacobians # <<>>

\* the angle update_context passes to the joint-limit task at position i
JointAngleOf(i) == Tail(state.position)[(tasks[i].joint - VehicleDof) + 1]

\* C19: once update_context has passed a joint-limit task, the task is
\* active exactly when the joint angle of the snapshot is below lower or above
\* upper, whatever its activation was before
C19_ActivationStrictAtBoundary ==
    subRunning = "robot_state_cb" =>
        \A i \in updateCalls :
            IsSetTask(tasks[i]) =>
                (tasks[i].active <=> (JointAngleOf(i) < tasks[i].lower
                                      \/ JointAngleOf(i) > tasks[i].upper))

\* a joint-limit task that was active and is passed with the angle at its
\* upper bound
C19_Witness ==
    /\ subRunning = "robot_state_cb"
    /\ \E i \in updateCalls :
          /\ IsSetTask(tasks[i])
          /\ updateStart[i].active
          /\ JointAngleOf(i) = tasks[i].upper
          /\ ~tasks[i].active

\* the transform of the identity rotation and the zero translation
IdentityTransform == [translation |-> <<0, 0, 0>>, rotation |-> IdentityRotation]

\* C21: calculate_uvms_jacobian returns 6 rows of 6 + n columns whose block
\* of rows 3..5 and columns 0..2 is zero; with identity rotations and zero
\* translations in the three transforms and zero joint angles the block of
\* rows 0..2 and columns 0..2 is the identity and the block of rows 0..2 and
\* columns 3..5 is zero
C21_UvmsJacobianVehicleBlocks ==
    callName = "calculate_uvms_jacobian" =>
        LET J == callResult
            m == Len(callArgs[2])
        IN /\ Len(J) = 6
           /\ \A r \in 1..6 : Len(J[r]) = VehicleDof + m
           /\ \A r \in 4..6 : \A c \in 1..3 : J[r][c] = 0
           /\ (/\ callArgs[2] = ZeroVec(m)
               /\ callArgs[3] = IdentityTransform
               /\ callArgs[4] = IdentityTransform
               /\ callArgs[5] = IdentityTransform) =>
                 /\ \A r \in 1..3 : \A c \in 1..3 : J[r][c] = IF r = c THEN 1 ELSE 0
                 /\ \A r \in 1..3 : \A c \in 4..6 : J[r][c] = 0

\* identity transforms, zero joint angles and a chain of two joints
C21_Witness ==
    /\ callName = "calculate_uvms_jacobian"
    /\ callArgs[2] = ZeroVec(2)
    /\ callArgs[3] = IdentityTransform
    /\ callArgs[4] = IdentityTransform
    /\ callArgs[5] = IdentityTransform
    /\ callResult[1][1] = 1
    /\ callResult[4][4] = 1
    /\ callResult[1][7] # 0

\* the rows a vehicle Jacobian has: 3 for the orientation, 2 for roll and
\* pitch, 1 for the yaw
VehicleJacobianRows ==
    [calculate_vehicle_orientation_jacobian |-> 3,
     calculate_vehicle_roll_pitch_jacobian |-> 2,
     calculate_vehicle_yaw_jacobian |-> 1]

\* C22: the vehicle orientation, roll-pitch and yaw Jacobians have 3, 2 and 1
\* rows of 6 + num_manipulator_joints columns, and every entry outside
\* columns 3, 4, 5 is zero
C22_VehicleJacobiansShape ==
    callName \in DOMAIN VehicleJacobianRows =>
        LET J == callResult
            m == callArgs[2]
        IN /\ Len(J) = VehicleJacobianRows[callName]
           /\ \A r \in 1..Len(J) :
                 /\ Len(J[r]) = VehicleDof + m
                 /\ \A c \in 1..(VehicleDof + m) : c \notin 4..6 => J[r][c] = 0

\* a yaw Jacobian of a rolled vehicle, its angular block not zero
C22_Witness ==
    /\ callName = "calculate_vehicle_yaw_jacobian"
    /\ callArgs[1].roll = 1
    /\ callArgs[2] = 2
    /\ \E c \in 4..6 : callResult[1][c] # 0

C24_SolvedTasksWereUpdated ==
    tickPc = "solve" =>
        \A k \in 1..Len(hierarchies[modeIdx]) : tasks[hierarchies[modeIdx][k]].stamp > 0

\* every task and the node hold the joint count, and the end-effector task
\* holds the chain
DescriptionApplied ==
    /\ n_manipulator_joints # 0
    /\ \A i \in 1..Len(tasks) :
          /\ tasks[i].n_manipulator_joints = n_manipulator_joints
          /\ tasks[i].kind = "EndEffectorPose" => tasks[i].has_chain

\* C25: whenever the description-received flag is set, and whenever a tick
\* has passed the initialization gate, the node and every task hold the joint
\* count and the kinematic chain
C25_FlagFollowsTaskAttributes ==
    (description_received \/ tickPc # "idle") => DescriptionApplied

\* a tick stopped at the gate, then a tick that passed it
C25_Witness ==
    /\ tickPc = "solve"
    /\ lastTick.outcome = "uninitialized"
    /\ description_received
    /\ Len(tasks) = 3

\* the callbacks of the subscriptions, which share the node's default group
SubscriptionCallbacks ==
    {"read_robot_description_cb", "robot_state_cb", "update_trajectory_cb"}

\* C28: no callback is executed by two threads at once, and no two of
\* robot_state_cb, read_robot_description_cb and update_trajectory_cb are
\* executed at once
C28_SameGroupCallbacksNeverOverlap ==
    /\ \A cb \in Callbacks : executing[cb] <= 1
    /\ \A a, b \in SubscriptionCallbacks :
          a # b => ~(executing[a] > 0 /\ executing[b] > 0)

\* the second tick runs beside a subscription callback while the third
\* subscription has already been served
C28_Witness ==
    /\ executing["update"] = 1
    /\ nTicks = 2
    /\ executing["update_trajectory_cb"] = 1
    /\ completed["robot_state_cb"] = 1

\* the value of a set task lies within its bounds, the bounds included
WithinBounds(t) == t.lower <= t.current_value /\ t.current_value <= t.upper

\* C26: a candidate checked against no set task is feasible; a candidate
\* checked against a set task whose value is within [lower, upper] on which
\* its projection is not zero is infeasible; and when every checked set task
\* is within its bounds the candidate is feasible exactly when all its
\* projections are zero
C26_InBoundsTaskNeedsZeroProjection ==
    callName = "all_satisfied" =>
        LET ts == callArgs[1]
            solution == callArgs[2]
            checked == {i \in 1..Len(ts) : ts[i].active}
        IN /\ checked = {} => callResult
           /\ (\E i \in checked : WithinBounds(ts[i]) /\ Dot(ts[i].jacobian[1], solution) # 0)
                 => ~callResult
           /\ (\A i \in checked : WithinBounds(ts[i])) =>
                 (callResult <=> \A i \in checked : Dot(ts[i].jacobian[1], solution) = 0)

\* two checked set tasks, one beyond its upper bound and driven back, the
\* other exactly at its upper bound with a projection that is not zero
C26_Witness ==
    /\ callName = "all_satisfied"
    /\ Len(callArgs[1]) = 2
    /\ callArgs[1][1].active /\ callArgs[1][2].active
    /\ callArgs[1][1].current_value > callArgs[1][1].upper
    /\ Dot(callArgs[1][1].jacobian[1], callArgs[2]) < 0
    /\ callArgs[1][2].current_value = callArgs[1][2].upper
    /\ ~callResult

\* C27: the velocity selected from the feasible candidates is the candidate
\* of the first position, in the order of the modes, whose norm no candidate
\* exceeds; it is that candidate itself
C27_TieGoesToFirstMode ==
    callName = "select_solution" =>
        LET sols == callArgs[1]
        IN \E i \in 1..Len(sols) :
              /\ callResult = sols[i]
              /\ \A j \in 1..Len(sols) : NormSq(sols[j]) <= NormSq(sols[i])
              /\ \A j \in 1..(i - 1) :
                    NormSq(sols[j]) < NormSq(sols[i]) /\ sols[j] # callResult

\* three candidates, the second and the third of the largest norm and
\* different from one another
C27_Witness ==
    /\ callName = "select_solution"
    /\ Len(callArgs[1]) = 3
    /\ NormSq(callArgs[1][1]) < NormSq(callArgs[1][2])
    /\ NormSq(callArgs[1][2]) = NormSq(callArgs[1][3])
    /\ callArgs[1][2] # callArgs[1][3]
    /\ callResult = callArgs[1][2]

\* C29: a planning request makes exactly one call on the goal: abort, with a
\* result without waypoints, when plan returned an empty mission; succeed,
\* with the list plan returned as the result's mission, otherwise
C29_PlanAbortsOrSucceedsOnce ==
    callName = "get_plan_cb" =>
        LET mission == callArgs[1]
            r == callResult
        IN /\ Len(r.goal_calls) = 1
           /\ IF mission = <<>>
              THEN r.goal_calls = <<"abort">> /\ r.result.mission = <<>>
              ELSE r.goal_calls = <<"succeed">> /\ r.result.mission = mission

\* a planner whose library mission is empty: the goal was aborted
C29_Witness ==
    /\ callName = "get_plan_cb"
    /\ callArgs[1] = <<>>
    /\ callResult.goal_calls = <<"abort">>

====
